---- MODULE Spec2Model ----
(***************************************************************************)
(* Model of the caddy-psl HTTP handler (src/handler.go): the placeholder   *)
(* outputs registered_domain, public_registered_domain, public_suffix,     *)
(* domain_suffix and is_icann, the peeling loop of icannSuffix and the     *)
(* index arithmetic of suffixPlusOne.                                      *)
(*                                                                         *)
(* Strings are sequences of one-character strings; indices into them are   *)
(* 0-based, as in Go, and converted where a sequence is accessed.          *)
(***************************************************************************)
EXTENDS Integers, Sequences, FiniteSets

\* ------------------------------------------------------------------ bounds
MaxLen == 5      \* longest raw host string of a request
MaxIters == 4    \* the iteration counter of icannSuffix saturates here
MaxArg == 4      \* longest argument of suffixPlusOne in SpecSPO

\* --------------------------------------------------------------- alphabet
Chars == {"a", "b", "A", ".", ":"}
ArgChars == {"a", "b", "."}

StrOver(cs, n) == UNION {[1..k -> cs] : k \in 0..n}

Hosts == StrOver(Chars, MaxLen)
Args == StrOver(ArgChars, MaxArg)

Empty == <<>>
\* the value of a call that ends in a run-time panic (index out of range)
Panic == <<"panic">>

Keys == {"registered_domain", "public_registered_domain", "public_suffix",
         "domain_suffix", "is_icann"}

\* ------------------------------------------------------- string functions
\* s[i], 0-based
At(s, i) == s[i + 1]

\* s[from:to], 0-based, to exclusive
Slice(s, from, to) == SubSeq(s, from + 1, to)

\* strings.IndexByte(s, c): the first index of c in s, or -1
IndexByte(s, c) ==
  IF \E i \in 1..Len(s) : s[i] = c
    THEN (CHOOSE i \in 1..Len(s) : s[i] = c /\ \A j \in 1..(i - 1) : s[j] # c) - 1
    ELSE -1

\* strings.LastIndex(s, c): the last index of c in s, or -1
LastIndex(s, c) ==
  IF \E i \in 1..Len(s) : s[i] = c
    THEN (CHOOSE i \in 1..Len(s) : s[i] = c /\ \A j \in (i + 1)..Len(s) : s[j] # c) - 1
    ELSE -1

\* strings.Cut(s, sep): the text before and after the first sep
Cut(s, sep) ==
  LET i == IndexByte(s, sep) IN
  IF i >= 0
    THEN [before |-> Slice(s, 0, i), after |-> Slice(s, i + 1, Len(s)), found |-> TRUE]
    ELSE [before |-> s, after |-> Empty, found |-> FALSE]

\* the dot-separated labels of s, left to right
RECURSIVE Split(_)
Split(s) ==
  LET c == Cut(s, ".") IN
  IF c.found THEN <<c.before>> \o Split(c.after) ELSE <<s>>

\* the labels joined with dots
RECURSIVE Join(_)
Join(ls) ==
  IF Len(ls) = 0 THEN Empty
  ELSE IF Len(ls) = 1 THEN ls[1]
  ELSE ls[1] \o <<".">> \o Join(Tail(ls))

Reverse(s) == [i \in 1..Len(s) |-> s[Len(s) + 1 - i]]

\* the last n elements of s
LastN(s, n) == SubSeq(s, Len(s) - n + 1, Len(s))

Min(x, y) == IF x <= y THEN x ELSE y

\* ----------------------------------------------------------- rule database
\* A rule: labels right-to-left, kind, authority.
Rule(labels, kind, authority) ==
  [labels |-> labels, kind |-> kind, authority |-> authority]

la == <<"a">>
lb == <<"b">>

\* no rule at all: every domain falls to the implicit default
DbNone == {}
\* a        (ICANN)    b.a      (ICANN)          like com, com.au
DbIcann == {Rule(<<la>>, "Exact", "ICANN"), Rule(<<la, lb>>, "Exact", "ICANN")}
\* a        (ICANN)    b.a      (PRIVATE)        like com, blogspot.com
DbBlogspot == {Rule(<<la>>, "Exact", "ICANN"), Rule(<<la, lb>>, "Exact", "PRIVATE")}
\* *.a      (ICANN)    !b.a     (ICANN)          like *.ck, !www.ck
DbWild == {Rule(<<la>>, "Wildcard", "ICANN"), Rule(<<la, lb>>, "Exception", "ICANN")}
\* a        (PRIVATE)                            a privately managed single label
DbPrivTld == {Rule(<<la>>, "Exact", "PRIVATE")}
\* a        (ICANN)    *.b.a    (PRIVATE)        like com, *.compute.amazonaws.com
DbPrivWild == {Rule(<<la>>, "Exact", "ICANN"), Rule(<<la, lb>>, "Wildcard", "PRIVATE")}
\* b.a      (PRIVATE)  a.b.a    (PRIVATE)        private over private over no rule
DbPrivDeep == {Rule(<<la, lb>>, "Exact", "PRIVATE"), Rule(<<la, lb, la>>, "Exact", "PRIVATE")}
\* a        (PRIVATE)  b.a      (PRIVATE)        private over a private single label
DbPrivStack == {Rule(<<la>>, "Exact", "PRIVATE"), Rule(<<la, lb>>, "Exact", "PRIVATE")}

Databases == {DbNone, DbIcann, DbBlogspot, DbWild, DbPrivTld, DbPrivWild,
              DbPrivDeep, DbPrivStack}

\* the number of trailing domain labels a rule looks at
RuleDepth(r) == IF r.kind = "Wildcard" THEN Len(r.labels) + 1 ELSE Len(r.labels)

\* rule r matches the trailing labels of the domain (labels left to right)
RuleMatches(r, labels) ==
  /\ RuleDepth(r) <= Len(labels)
  /\ Reverse(LastN(labels, Len(r.labels))) = r.labels

\* the rules of database d that match, by kind
MatchingExceptions(d, labels) ==
  {r \in d : r.kind = "Exception" /\ RuleMatches(r, labels)}

MatchingRules(d, labels) ==
  {r \in d : r.kind # "Exception" /\ RuleMatches(r, labels)}

\* RuleDatabase.lookup: the number of trailing labels of the winning rule and
\* its authority
Lookup(d, labels) ==
  LET ex == MatchingExceptions(d, labels)
      ms == MatchingRules(d, labels)
  IN IF ex # {}
       THEN LET r == CHOOSE r \in ex : \A q \in ex : RuleDepth(q) <= RuleDepth(r)
            IN [suffix_label_count |-> Len(r.labels) - 1, authority |-> r.authority]
     ELSE IF ms # {}
       THEN LET r == CHOOSE r \in ms : \A q \in ms : RuleDepth(q) <= RuleDepth(r)
            IN [suffix_label_count |-> RuleDepth(r), authority |-> r.authority]
     ELSE [suffix_label_count |-> 1, authority |-> "ICANN"]

\* publicsuffix.PublicSuffix(domain): the matched suffix of the domain and
\* whether the winning rule is ICANN-managed. The library is not part of the
\* repository's sources; the lookup follows the design document: longest
\* match, exceptions first, an unlisted domain defaults to its last label
\* with ICANN authority, and the empty domain gives ("", false).
PublicSuffix(d, dom) ==
  IF dom = Empty THEN [eTLD |-> Empty, icann |-> FALSE]
  ELSE LET labels == Split(dom)
           m == Lookup(d, labels)
       IN [eTLD |-> Join(LastN(labels, m.suffix_label_count)),
           icann |-> m.authority = "ICANN"]

\* ------------------------------------------------------------ the handler
\* net.SplitHostPort(host) for a host without brackets
SplitHostPort(h) ==
  LET i == LastIndex(h, ":") IN
  IF i < 0 THEN [host |-> Empty, err |-> TRUE]
  ELSE IF IndexByte(Slice(h, 0, i), ":") >= 0 THEN [host |-> Empty, err |-> TRUE]
  ELSE [host |-> Slice(h, 0, i), err |-> FALSE]

\* ServeHTTP: the domain looked up for a raw host value
hostDomain(h) ==
  LET r == SplitHostPort(h) IN IF r.err THEN h ELSE r.host

\* suffixPlusOne with the +1 after LastIndex left out
suffixPlusOneKeepDot(dom, suffix) ==
  IF Len(suffix) >= Len(dom) THEN Empty
  ELSE LET i == Len(dom) - Len(suffix) - 1 IN
       IF i < 0 \/ i >= Len(dom) THEN Panic
       ELSE IF At(dom, i) # "." THEN Empty
       ELSE LET from == LastIndex(Slice(dom, 0, i), ".") IN
            IF from < 0 \/ from > Len(dom) THEN Panic
            ELSE Slice(dom, from, Len(dom))

\* suffixPlusOne with > for >= in its first test
suffixPlusOneOffByOne(dom, suffix) ==
  IF Len(suffix) > Len(dom) THEN Empty
  ELSE LET i == Len(dom) - Len(suffix) - 1 IN
       IF i < 0 \/ i >= Len(dom) THEN Panic
       ELSE IF At(dom, i) # "." THEN Empty
       ELSE LET from == LastIndex(Slice(dom, 0, i), ".") + 1 IN
            IF from < 0 \/ from > Len(dom) THEN Panic
            ELSE Slice(dom, from, Len(dom))

\* suffixPlusOne without the test that domain[i] is a dot
suffixPlusOneNoDotCheck(dom, suffix) ==
  IF Len(suffix) >= Len(dom) THEN Empty
  ELSE LET i == Len(dom) - Len(suffix) - 1 IN
       IF i < 0 \/ i >= Len(dom) THEN Panic
       ELSE LET from == LastIndex(Slice(dom, 0, i), ".") + 1 IN
            IF from < 0 \/ from > Len(dom) THEN Panic
            ELSE Slice(dom, from, Len(dom))

\* suffixPlusOne(domain, suffix); a failed bounds check of the Go run time
\* is the value Panic
suffixPlusOne(dom, suffix) ==
  IF Len(suffix) >= Len(dom) THEN Empty
  ELSE LET i == Len(dom) - Len(suffix) - 1 IN
       IF i < 0 \/ i >= Len(dom) THEN Panic
       ELSE IF At(dom, i) # "." THEN Empty
       ELSE LET from == LastIndex(Slice(dom, 0, i), ".") + 1 IN
            IF from < 0 \/ from > Len(dom) THEN Panic
            ELSE Slice(dom, from, Len(dom))

\* the iteration of icannSuffix without the test of the icann flag
icannSuffixStepNoIcannCheck(d, dom) ==
  [returns |-> TRUE, value |-> PublicSuffix(d, dom).eTLD, domain |-> dom]

\* the iteration of icannSuffix keeping the text before the dot, not after it
icannSuffixStepCutBefore(d, dom) ==
  LET r == PublicSuffix(d, dom) IN
  IF r.icann THEN [returns |-> TRUE, value |-> r.eTLD, domain |-> dom]
  ELSE IF IndexByte(r.eTLD, ".") >= 0
    THEN LET c == Cut(r.eTLD, ".") IN
         IF ~c.found THEN [returns |-> TRUE, value |-> Empty, domain |-> dom]
         ELSE [returns |-> FALSE, value |-> Empty, domain |-> c.before]
  ELSE [returns |-> FALSE, value |-> Empty, domain |-> dom]

\* one iteration of the loop of icannSuffix on the current value of its
\* parameter: either it returns a value or it goes round with a new value
icannSuffixStep(d, dom) ==
  LET r == PublicSuffix(d, dom) IN
  IF r.icann THEN [returns |-> TRUE, value |-> r.eTLD, domain |-> dom]
  ELSE IF IndexByte(r.eTLD, ".") >= 0
    THEN LET c == Cut(r.eTLD, ".") IN
         IF ~c.found THEN [returns |-> TRUE, value |-> Empty, domain |-> dom]
         ELSE [returns |-> FALSE, value |-> Empty, domain |-> c.after]
  ELSE [returns |-> FALSE, value |-> Empty, domain |-> dom]

\* case "public_registered_domain" without the test of the icann flag
publicRegisteredDomainNoGate(d, dom) ==
  suffixPlusOne(dom, PublicSuffix(d, dom).eTLD)

\* case "public_registered_domain"
publicRegisteredDomain(d, dom) ==
  LET r == PublicSuffix(d, dom) IN
  IF r.icann THEN suffixPlusOne(dom, r.eTLD) ELSE Empty

\* case "domain_suffix"
domainSuffix(d, dom) == PublicSuffix(d, dom).eTLD

\* case "is_icann", as the replacer renders it
isIcann(d, dom) ==
  IF PublicSuffix(d, dom).icann THEN <<"t", "r", "u", "e">>
  ELSE <<"f", "a", "l", "s", "e">>

\* what the caller of icannSuffix does with the value it returns
afterIcannSuffix(k, dom, publicSuffix) ==
  IF k = "registered_domain" THEN suffixPlusOne(dom, publicSuffix) ELSE publicSuffix

\* ------------------------------------------------------------------ state
VARIABLES
  db,      \* the rule database, built once
  host,    \* the raw host value of the request being served
  key,     \* the output ending of the placeholder being evaluated
  domain,  \* ServeHTTP's domain: the host without its port
  probe,   \* icannSuffix's parameter, reassigned by its loop
  iters,   \* lookups made by the running call of icannSuffix (saturating)
  result,  \* the value of the placeholder, once evaluated
  pc       \* "idle", "icannSuffix" (in the loop), "done"

vars == <<db, host, key, domain, probe, iters, result, pc>>

\* The database is built once; a request carries a raw host value.
Init ==
  /\ db \in Databases
  /\ host \in Hosts
  /\ key = "none"
  /\ domain = Empty
  /\ probe = Empty
  /\ iters = 0
  /\ result = Empty
  /\ pc = "idle"

\* Every evaluation of a placeholder is a call of its own on no shared state
\* but the database: a behaviour follows one evaluation.
Ready == pc = "idle"

\* a placeholder whose value one switch case computes without a loop
Immediate(k, value) ==
  /\ Ready
  /\ key' = k
  /\ domain' = hostDomain(host)
  /\ result' = value
  /\ pc' = "done"
  /\ UNCHANGED <<db, host, probe, iters>>

\* a placeholder whose value needs icannSuffix: enter its loop
EnterIcannSuffix(k) ==
  /\ Ready
  /\ key' = k
  /\ domain' = hostDomain(host)
  /\ probe' = hostDomain(host)
  /\ pc' = "icannSuffix"
  /\ UNCHANGED <<db, host, iters, result>>

ServeRegisteredDomain == EnterIcannSuffix("registered_domain")

ServePublicSuffix == EnterIcannSuffix("public_suffix")

ServePublicRegisteredDomain ==
  Immediate("public_registered_domain", publicRegisteredDomain(db, hostDomain(host)))

ServeDomainSuffix == Immediate("domain_suffix", domainSuffix(db, hostDomain(host)))

ServeIsIcann == Immediate("is_icann", isIcann(db, hostDomain(host)))

\* one iteration of the for loop of icannSuffix, and the return to its caller
IcannSuffixIter ==
  /\ pc = "icannSuffix"
  /\ LET s == icannSuffixStep(db, probe) IN
       /\ iters' = Min(iters + 1, MaxIters)
       /\ probe' = s.domain
       /\ IF s.returns
            THEN /\ result' = afterIcannSuffix(key, domain, s.value)
                 /\ pc' = "done"
            ELSE UNCHANGED <<result, pc>>
  /\ UNCHANGED <<db, host, key, domain>>

Next ==
  \/ ServeRegisteredDomain
  \/ ServePublicRegisteredDomain
  \/ ServePublicSuffix
  \/ ServeDomainSuffix
  \/ ServeIsIcann
  \/ IcannSuffixIter

Spec == Init /\ [][Next]_vars

\* ------------------------------------------------ suffixPlusOne on its own
InitSPO ==
  /\ db = DbNone
  /\ host = Empty
  /\ key = "none"
  /\ domain \in Args
  /\ probe \in Args
  /\ iters = 0
  /\ result = Empty
  /\ pc = "idle"

CallSuffixPlusOne ==
  /\ pc = "idle"
  /\ result' = suffixPlusOne(domain, probe)
  /\ pc' = "done"
  /\ UNCHANGED <<db, host, key, domain, probe, iters>>

NextSPO == CallSuffixPlusOne

SpecSPO == InitSPO /\ [][NextSPO]_vars

\* ------------------------------------------------- values of whole calls
\* the value of a call that never returns
Diverges == <<"diverges">>

\* icannSuffix(dom) run to its return: its iterations, at most fuel of them
RECURSIVE icannSuffixRun(_, _, _)
icannSuffixRun(d, dom, fuel) ==
  LET s == icannSuffixStep(d, dom) IN
  IF s.returns THEN s.value
  ELSE IF fuel = 0 \/ s.domain = dom THEN Diverges
  ELSE icannSuffixRun(d, s.domain, fuel - 1)

\* the value of the placeholder with ending k for the domain dom
OutputOf(d, k, dom) ==
  CASE k = "public_registered_domain" -> publicRegisteredDomain(d, dom)
    [] k = "domain_suffix" -> domainSuffix(d, dom)
    [] k = "is_icann" -> isIcann(d, dom)
    [] OTHER ->
         LET ps == icannSuffixRun(d, dom, Len(dom) + 1) IN
         IF ps = Diverges THEN Diverges ELSE afterIcannSuffix(k, dom, ps)

\* s is a trailing substring of t
IsSuffix(s, t) == Len(s) <= Len(t) /\ LastN(t, Len(s)) = s

\* s is a trailing substring of t that starts at the start of t or after a dot
IsSuffixAtBoundary(s, t) ==
  /\ IsSuffix(s, t)
  /\ Len(s) = Len(t) \/ t[Len(t) - Len(s)] = "."

\* s with its upper-case letters folded to lower case
ToLower(s) == [i \in 1..Len(s) |-> IF s[i] = "A" THEN "a" ELSE s[i]]

\* the suffix the lookup returns when only the ICANN rules are consulted
IcannOnlySuffix(d, dom) ==
  PublicSuffix({r \in d : r.authority = "ICANN"}, dom).eTLD

\* a Domain of the data model: not empty and without empty labels
ValidDomain(dom) ==
  /\ dom # Empty
  /\ \A i \in 1..Len(Split(dom)) : Split(dom)[i] # Empty

Done == pc = "done"

\* ------------------------------------------------------------------ claims

\* C1: every iteration of the peeling of icannSuffix that does not return
\* replaces the probe by a strictly shorter string (so the call returns).
C1_PeelingShortens ==
  [][(pc = "icannSuffix" /\ pc' = "icannSuffix") => Len(probe') < Len(probe)]_vars

\* C2: public_registered_domain(d) is registered_domain(d) when is_icann(d)
\* holds of the unpeeled d, and the empty string otherwise.
C2_PublicRegisteredDomain ==
  (Done /\ key = "public_registered_domain") =>
    result = IF PublicSuffix(db, domain).icann
               THEN OutputOf(db, "registered_domain", domain)
               ELSE Empty

C2_Witness ==
  /\ Done
  /\ key = "public_registered_domain"
  /\ PublicSuffix(db, domain).icann
  /\ ValidDomain(domain)
  /\ Len(Split(domain)) = 3
  /\ Len(Split(result)) = 2

\* the case of C3: d = x.P, the lookup of d is the private suffix P = l.S, and
\* the lookup of S is ICANN and all of S
PrivateOverIcann(d, dom) ==
  LET r == PublicSuffix(d, dom)
      c == Cut(r.eTLD, ".")
  IN /\ ~r.icann
     /\ c.found
     /\ Len(r.eTLD) < Len(dom)
     /\ PublicSuffix(d, c.after) = [eTLD |-> c.after, icann |-> TRUE]

\* C3: for d = x.P with P = l.S private over the ICANN suffix S, is_icann is
\* false, domain_suffix is P, public_suffix is S, registered_domain is P and
\* public_registered_domain is empty.
C3_PrivateSuffix ==
  (Done /\ PrivateOverIcann(db, domain)) =>
    LET P == PublicSuffix(db, domain).eTLD
        S == Cut(P, ".").after
    IN CASE key = "is_icann" -> result = <<"f", "a", "l", "s", "e">>
         [] key = "domain_suffix" -> result = P
         [] key = "public_suffix" -> result = S
         [] key = "registered_domain" -> result = P
         [] key = "public_registered_domain" -> result = Empty
         [] OTHER -> FALSE

C3_Witness ==
  /\ Done
  /\ PrivateOverIcann(db, domain)
  /\ ValidDomain(domain)
  /\ key = "registered_domain"
  /\ iters = 2
  /\ result = <<"b", ".", "a">>

\* C4: when public_suffix(d) is non-empty and not the whole of d,
\* registered_domain(d) is the label of d left of public_suffix(d), a dot and
\* public_suffix(d): one more label, and a trailing substring of d.
C4_RegisteredDomain ==
  (Done /\ key = "registered_domain") =>
    LET ps == OutputOf(db, "public_suffix", domain)
        ls == Split(domain)
        n == Len(Split(ps))
    IN (ps # Empty /\ ps # domain) =>
         /\ n < Len(ls)
         /\ result = ls[Len(ls) - n] \o <<".">> \o ps
         /\ Len(Split(result)) = n + 1
         /\ IsSuffixAtBoundary(result, domain)

C4_Witness ==
  /\ Done
  /\ key = "registered_domain"
  /\ OutputOf(db, "public_suffix", domain) \notin {Empty, domain}
  /\ ValidDomain(domain)
  /\ iters = 2
  /\ Len(Split(domain)) = 3
  /\ Len(Split(result)) = 2

\* C5: domain_suffix(d) is a trailing substring of d that starts at a label
\* boundary, and at every iteration of the peeling the suffix public_suffix
\* works on, and the one it returns, is a trailing substring of
\* domain_suffix(d).
C5_SuffixContainment ==
  /\ (Done /\ key = "domain_suffix") => IsSuffixAtBoundary(result, domain)
  /\ pc = "icannSuffix" =>
       /\ IsSuffix(probe, domain)
       /\ IsSuffix(PublicSuffix(db, probe).eTLD, domainSuffix(db, domain))
  /\ (Done /\ key = "public_suffix") =>
       /\ IsSuffix(result, domainSuffix(db, domain))
       /\ IsSuffixAtBoundary(result, domain)

C5_Witness ==
  /\ Done
  /\ key = "public_suffix"
  /\ iters >= 2
  /\ result # Empty
  /\ Len(result) < Len(domainSuffix(db, domain))

\* the case of C6: a non-empty domain no trailing label sequence of which
\* matches a rule
Unlisted(d, dom) ==
  /\ dom # Empty
  /\ MatchingRules(d, Split(dom)) = {}
  /\ MatchingExceptions(d, Split(dom)) = {}

\* C6: for a domain that no rule matches, is_icann is true and domain_suffix
\* and public_suffix are its last label; for a single unlisted label
\* registered_domain is the empty string.
C6_ImplicitDefault ==
  (Done /\ Unlisted(db, domain)) =>
    LET ls == Split(domain) IN
    CASE key = "is_icann" -> result = <<"t", "r", "u", "e">>
      [] key = "domain_suffix" -> result = ls[Len(ls)]
      [] key = "public_suffix" -> result = ls[Len(ls)]
      [] key = "registered_domain" -> (Len(ls) = 1 => result = Empty)
      [] OTHER -> TRUE

C6_Witness ==
  /\ Done
  /\ Unlisted(db, domain)
  /\ db # {}
  /\ key = "registered_domain"
  /\ Len(Split(domain)) = 1
  /\ result = Empty

\* C7: every output computed for a host equals the output computed for the
\* lower-cased host.
C7_CaseInsensitive ==
  Done => result = OutputOf(db, key, hostDomain(ToLower(host)))

\* C8: public_suffix(d) returns the suffix the longest-match lookup returns
\* for d when only the ICANN rules (and the implicit default) are consulted.
C8_IcannOnlyLookup ==
  key = "public_suffix" =>
    IF Done THEN result = IcannOnlySuffix(db, domain)
    ELSE icannSuffixRun(db, probe, Len(probe) + 1) = IcannOnlySuffix(db, domain)

C10_SuffixPlusOneTotal ==
  Done =>
    /\ result # Panic
    /\ IF Len(probe) >= Len(domain) THEN result = Empty
       ELSE LET i == Len(domain) - Len(probe) - 1 IN
            IF At(domain, i) # "." THEN result = Empty
            ELSE \E k \in 0..i :
                   /\ result = Slice(domain, k, Len(domain))
                   /\ k = 0 \/ At(domain, k - 1) = "."
                   /\ \A j \in k..(i - 1) : At(domain, j) # "."

C10_Witness ==
  /\ Done
  /\ result # Empty
  /\ Len(probe) > 0
  /\ IsSuffix(probe, domain)
  /\ Len(result) > Len(probe) + 1
  /\ Len(result) < Len(domain)

====
